---- MODULE Spec2Model ----
(***************************************************************************)
(* RainBot: the forecast tables and the rule-based advice of the dashboard *)
(* scripts streamlit_app.py, pages/01_Rain_Forecast.py,                    *)
(* pages/02_Farmer_Advisory.py and of utils.py.                            *)
(*                                                                         *)
(* Numbers.  A Python float is an exact rational [num, den] (den > 0), so  *)
(* that a mean is exact and a comparison with a threshold is a cross       *)
(* multiplication.  NaN and None are values of the same record shape.      *)
(*                                                                         *)
(* Strings.  A Python str is the sequence of its tokens: the token " " is  *)
(* one space character, every other token is a run of characters holding   *)
(* no space.  The em dash of the source is written "--" and its emoji      *)
(* "[warn]", "[snow]".  s + t is s \o t.                                   *)
(***************************************************************************)
EXTENDS Integers, Sequences, FiniteSets, TLC

VARIABLES
    script,      \* the source file whose function is applied
    pc,          \* position of the run
    today_rain,  \* compose_advice argument
    avg_temp,    \* compose_advice argument
    avg_hum,     \* compose_advice / flood risk argument
    crop,        \* compose_advice argument
    advice,      \* compose_advice result
    avg_rain,    \* flood risk input
    flood,       \* flood risk level and colour
    payload,     \* parsed forecast JSON
    df,          \* normalized table (build_forecast_df / build_hourly_df)
    df_daily,    \* daily aggregation of df
    net,         \* what the services answer in this run
    geo_res,     \* result of geocode_city
    fetch_res,   \* result of fetch_forecast
    shown,       \* the messages the page has displayed
    crashed,     \* the exception that ended the script unhandled, or ""
    files,       \* the temporary files on disk
    stt          \* result of transcribe_audio

\* the variables of the service calls and of the page
io == <<net, geo_res, fetch_res, shown, crashed, files, stt>>

vars == <<script, pc, today_rain, avg_temp, avg_hum, crop, advice,
          avg_rain, flood, payload, df, df_daily,
          net, geo_res, fetch_res, shown, crashed, files, stt>>

----------------------------------------------------------------------------
(* Python values *)

Num(n, d) == [kind |-> "num", num |-> n, den |-> d]
F(n) == Num(n, 1)
NaN == [kind |-> "nan", num |-> 0, den |-> 1]
None == [kind |-> "none", num |-> 0, den |-> 1]

IsNum(x) == x.kind = "num"

\* x > k, x < k for a float x and an integer literal k: False for NaN
GT(x, k) == IsNum(x) /\ x.num > k * x.den
LT(x, k) == IsNum(x) /\ x.num < k * x.den

\* bool(x): None and 0.0 are falsy, every other float (NaN too) is truthy
Truthy(x) == x.kind = "nan" \/ (IsNum(x) /\ x.num # 0)

\* the crop argument when it is None
NoCrop == "<None>"

----------------------------------------------------------------------------
(* String literals *)

SP == " "

\* the literal made of the words ws, one space between two words
RECURSIVE W(_)
W(ws) ==
    IF Len(ws) <= 1 THEN ws
    ELSE <<ws[1], SP>> \o W(Tail(ws))

\* utils.py
utils_Heavy == W(<<"Heavy", "rain", "--", "avoid", "fertilizer,", "secure", "crops", "and", "drainage.">>)
utils_Moderate == W(<<"Moderate", "rain", "--", "delay", "irrigation,", "prepare", "drainage.">>)
utils_Light == W(<<"Light", "rain", "--", "minimal", "irrigation", "needed.">>)
utils_NoRain == W(<<"No", "rain", "--", "schedule", "irrigation/fertilizer", "on", "dry", "day.">>)
utils_VeryHot == <<SP>> \o W(<<"[warn]", "Very", "hot", "day", "--", "protect", "crops", "and", "livestock.">>)
utils_VeryCold == <<SP>> \o W(<<"[snow]", "Very", "cold", "day", "--", "protect", "sensitive", "crops.">>)
utils_Heat == <<SP>> \o W(<<"High", "temperature", "--", "irrigate", "during", "cooler", "hours.">>)
utils_Cool == <<SP>> \o W(<<"Cooler", "weather", "--", "good", "for", "sowing", "wheat/mustard.">>)
utils_Humid == <<SP>> \o W(<<"High", "humidity", "--", "monitor", "fungal", "diseases.">>)
utils_Crop(c) == <<SP>> \o W(<<"Crop-specific", "advice", "for", c>>) \o <<".">>

\* streamlit_app.py
app_Heavy == W(<<"Heavy", "rain", "expected", "--", "avoid", "fertilizer", "application,", "secure", "harvested", "crops", "and", "livestock,", "and", "ensure", "drainage", "is", "clear.">>)
app_Moderate == W(<<"Moderate", "rain", "expected", "--", "delay", "irrigation", "and", "spraying;", "prepare", "drainage.">>)
app_Light == W(<<"Light", "rain", "expected", "--", "minimal", "irrigation", "needed;", "cover", "sensitive", "crops", "if", "forecast", "shows", "heavier", "rain", "later.">>)
app_NoRain == W(<<"No", "rain", "expected", "--", "schedule", "irrigation", "and", "fertilizer", "application", "on", "dry", "day.">>)
app_Heat == <<SP>> \o W(<<"High", "temperatures", "--", "apply", "mulch", "and", "irrigate", "during", "cooler", "hours.">>)
app_Cool == <<SP>> \o W(<<"Cooler", "weather", "--", "suitable", "for", "sowing", "wheat", "and", "mustard.">>)
app_Humid == <<SP>> \o W(<<"High", "humidity", "--", "monitor", "for", "fungal", "diseases", "and", "consider", "protective", "treatments.">>)

\* pages/01_Rain_Forecast.py and pages/02_Farmer_Advisory.py (the same literals)
page_Heavy == W(<<"Heavy", "rain", "expected", "--", "avoid", "fertilizer", "and", "protect", "harvested", "crops.">>) \o <<SP>>
page_Moderate == W(<<"Moderate", "rain", "--", "delay", "irrigation", "and", "spraying.">>) \o <<SP>>
page_Light == W(<<"Light", "rain", "--", "minimal", "irrigation", "needed.">>) \o <<SP>>
page_NoRain == W(<<"No", "rain", "--", "irrigation", "recommended", "today.">>) \o <<SP>>
page_Heat == W(<<"High", "temp", "--", "irrigate", "during", "cool", "hours.">>) \o <<SP>>
page_Cool == W(<<"Cool", "temp", "--", "good", "for", "sowing", "wheat/mustard.">>) \o <<SP>>
page_Humid == W(<<"High", "humidity", "--", "fungal", "risk;", "monitor", "crops.">>) \o <<SP>>
page_Wheat == <<SP>> \o W(<<"Wheat:", "Avoid", "waterlogging;", "maintain", "field", "drainage.">>)
page_Rice == <<SP>> \o W(<<"Rice:", "Standing", "water", "is", "okay", "if", "rain", "is", "light.">>)
page_Maize == <<SP>> \o W(<<"Maize:", "Protect", "against", "stem", "borers", "in", "humid", "weather.">>)

----------------------------------------------------------------------------
(* compose_advice, utils.py *)

\* utils_rain with inclusive thresholds
utils_rain_inclusive(rain) ==
    IF ~LT(rain, 30) THEN utils_Heavy
    ELSE IF ~LT(rain, 10) THEN utils_Moderate
    ELSE IF GT(rain, 0) THEN utils_Light
    ELSE utils_NoRain

utils_rain(rain) ==
    IF GT(rain, 30) THEN utils_Heavy
    ELSE IF GT(rain, 10) THEN utils_Moderate
    ELSE IF GT(rain, 0) THEN utils_Light
    ELSE utils_NoRain

utils_temp(temp) ==
    IF Truthy(temp) THEN
        IF GT(temp, 40) THEN utils_VeryHot
        ELSE IF LT(temp, 10) THEN utils_VeryCold
        ELSE IF GT(temp, 35) THEN utils_Heat
        ELSE IF LT(temp, 20) THEN utils_Cool
        ELSE <<>>
    ELSE <<>>

utils_hum(hum) ==
    IF Truthy(hum) /\ GT(hum, 85) THEN utils_Humid ELSE <<>>

\* `if crop:` -- None and the empty string are falsy
utils_crop(c) ==
    IF c # NoCrop /\ c # "" THEN utils_Crop(c) ELSE <<>>

utils_compose_advice(rain, temp, hum, c) ==
    utils_rain(rain) \o utils_temp(temp) \o utils_hum(hum) \o utils_crop(c)

(* compose_advice, streamlit_app.py (no crop parameter) *)

app_rain(rain) ==
    IF GT(rain, 30) THEN app_Heavy
    ELSE IF GT(rain, 10) THEN app_Moderate
    ELSE IF GT(rain, 0) THEN app_Light
    ELSE app_NoRain

app_temp(temp) ==
    IF temp # None THEN
        IF GT(temp, 35) THEN app_Heat
        ELSE IF LT(temp, 20) THEN app_Cool
        ELSE <<>>
    ELSE <<>>

\* app_hum with the threshold 85 included
app_hum_inclusive(hum) ==
    IF hum # None /\ (GT(hum, 85) \/ hum = F(85)) THEN app_Humid ELSE <<>>

app_hum(hum) ==
    IF hum # None /\ GT(hum, 85) THEN app_Humid ELSE <<>>

app_compose_advice(rain, temp, hum) ==
    app_rain(rain) \o app_temp(temp) \o app_hum(hum)

(* compose_advice, pages/01_Rain_Forecast.py *)

p01_rain(rain) ==
    IF GT(rain, 30) THEN page_Heavy
    ELSE IF GT(rain, 10) THEN page_Moderate
    ELSE IF GT(rain, 0) THEN page_Light
    ELSE page_NoRain

p01_temp(temp) ==
    IF GT(temp, 35) THEN page_Heat
    ELSE IF LT(temp, 18) THEN page_Cool
    ELSE <<>>

p01_hum(hum) ==
    IF GT(hum, 85) THEN page_Humid ELSE <<>>

p01_crop(c) ==
    IF c = "Wheat" THEN page_Wheat
    ELSE IF c = "Rice" THEN page_Rice
    ELSE IF c = "Maize" THEN page_Maize
    ELSE <<>>

\* p01_compose_advice with the humidity test placed before the temperature test
p01_compose_advice_hum_first(rain, temp, hum, c) ==
    p01_rain(rain) \o p01_hum(hum) \o p01_temp(temp) \o p01_crop(c)

p01_compose_advice(rain, temp, hum, c) ==
    p01_rain(rain) \o p01_temp(temp) \o p01_hum(hum) \o p01_crop(c)

(* compose_advice, pages/02_Farmer_Advisory.py *)

p02_rain(rain) ==
    IF GT(rain, 30) THEN page_Heavy
    ELSE IF GT(rain, 10) THEN page_Moderate
    ELSE IF GT(rain, 0) THEN page_Light
    ELSE page_NoRain

p02_temp(temp) ==
    IF GT(temp, 35) THEN page_Heat
    ELSE IF LT(temp, 18) THEN page_Cool
    ELSE <<>>

p02_hum(hum) ==
    IF GT(hum, 85) THEN page_Humid ELSE <<>>

p02_crop(c) ==
    IF c = "Wheat" THEN page_Wheat
    ELSE IF c = "Rice" THEN page_Rice
    ELSE IF c = "Maize" THEN page_Maize
    ELSE <<>>

p02_compose_advice(rain, temp, hum, c) ==
    p02_rain(rain) \o p02_temp(temp) \o p02_hum(hum) \o p02_crop(c)

----------------------------------------------------------------------------
(* The advice rules applied to drawn arguments *)

RainVals == {F(0), Num(1, 2), F(5), F(10), Num(21, 2), F(11), F(30), Num(61, 2), F(31), F(35)}
TempVals == {None, NaN, F(-5), F(0), F(5), F(10), F(15), F(18), F(19), F(20), F(25),
             F(35), Num(71, 2), F(38), F(40), F(45)}
HumVals == {None, NaN, F(50), F(85), Num(171, 2), F(86), F(90)}
CropVals == {NoCrop, "", "Wheat", "Rice", "Maize", "Cotton"}

NoAdvice == <<>>
NoFlood == [level |-> "", color |-> ""]
NoPayload == [shape |-> "none"]
NoTable == [status |-> "none", exc |-> "", rows |-> <<>>]
NoNet == [geo |-> "none", forecast |-> "none", translate |-> "none", tts |-> "none", stt |-> "none"]
NoResult == [called |-> FALSE, data |-> FALSE, err |-> ""]

\* no service is called and nothing is displayed
InitIO ==
    /\ net = NoNet
    /\ geo_res = NoResult
    /\ fetch_res = NoResult
    /\ shown = <<>>
    /\ crashed = ""
    /\ files = {}
    /\ stt = NoResult

InitAdvice ==
    /\ script = "none"
    /\ pc = "start"
    /\ today_rain \in RainVals
    /\ avg_temp \in TempVals
    /\ avg_hum \in HumVals
    /\ crop \in CropVals
    /\ advice = NoAdvice
    /\ avg_rain = None
    /\ flood = NoFlood
    /\ payload = NoPayload
    /\ df = NoTable
    /\ df_daily = NoTable
    /\ InitIO

AdviseUtils ==
    /\ pc = "start"
    /\ advice' = utils_compose_advice(today_rain, avg_temp, avg_hum, crop)
    /\ script' = "utils"
    /\ pc' = "advised"
    /\ UNCHANGED <<today_rain, avg_temp, avg_hum, crop, avg_rain, flood, payload, df, df_daily>>
    /\ UNCHANGED io

\* streamlit_app.py: compose_advice takes no crop
AdviseApp ==
    /\ pc = "start"
    /\ crop = NoCrop
    /\ advice' = app_compose_advice(today_rain, avg_temp, avg_hum)
    /\ script' = "app"
    /\ pc' = "advised"
    /\ UNCHANGED <<today_rain, avg_temp, avg_hum, crop, avg_rain, flood, payload, df, df_daily>>
    /\ UNCHANGED io

\* the pages pass the floats of df_daily[...].mean(), never None
AdviseP01 ==
    /\ pc = "start"
    /\ avg_temp # None /\ avg_hum # None
    /\ advice' = p01_compose_advice(today_rain, avg_temp, avg_hum, crop)
    /\ script' = "p01"
    /\ pc' = "advised"
    /\ UNCHANGED <<today_rain, avg_temp, avg_hum, crop, avg_rain, flood, payload, df, df_daily>>
    /\ UNCHANGED io

AdviseP02 ==
    /\ pc = "start"
    /\ avg_temp # None /\ avg_hum # None
    /\ advice' = p02_compose_advice(today_rain, avg_temp, avg_hum, crop)
    /\ script' = "p02"
    /\ pc' = "advised"
    /\ UNCHANGED <<today_rain, avg_temp, avg_hum, crop, avg_rain, flood, payload, df, df_daily>>
    /\ UNCHANGED io

NextAdvice == AdviseUtils \/ AdviseApp \/ AdviseP01 \/ AdviseP02

SpecAdvice == InitAdvice /\ [][NextAdvice]_vars

----------------------------------------------------------------------------
(* Flood risk index, streamlit_app.py *)

\* the flood risk block with the MEDIUM test placed first
flood_risk_medium_first(rain, hum) ==
    IF GT(rain, 10) /\ GT(hum, 70) THEN [level |-> "MEDIUM", color |-> "orange"]
    ELSE IF GT(rain, 20) /\ GT(hum, 80) THEN [level |-> "HIGH", color |-> "red"]
    ELSE [level |-> "LOW", color |-> "green"]

flood_risk(rain, hum) ==
    IF GT(rain, 20) /\ GT(hum, 80) THEN [level |-> "HIGH", color |-> "red"]
    ELSE IF GT(rain, 10) /\ GT(hum, 70) THEN [level |-> "MEDIUM", color |-> "orange"]
    ELSE [level |-> "LOW", color |-> "green"]

FloodRainVals == {F(0), F(5), F(10), Num(21, 2), F(11), F(15), F(20), Num(41, 2), F(21), F(25), F(40)}
FloodHumVals == {NaN, F(50), F(70), Num(141, 2), F(71), F(75), F(80), Num(161, 2), F(81), F(85), F(100)}

InitFlood ==
    /\ script = "app"
    /\ pc = "start"
    /\ today_rain = None
    /\ avg_temp = None
    /\ avg_hum \in FloodHumVals
    /\ crop = NoCrop
    /\ advice = NoAdvice
    /\ avg_rain \in FloodRainVals
    /\ flood = NoFlood
    /\ payload = NoPayload
    /\ df = NoTable
    /\ df_daily = NoTable
    /\ InitIO

FloodRisk ==
    /\ pc = "start"
    /\ flood' = flood_risk(avg_rain, avg_hum)
    /\ pc' = "classified"
    /\ UNCHANGED <<script, today_rain, avg_temp, avg_hum, crop, advice, avg_rain, payload, df, df_daily>>
    /\ UNCHANGED io

NextFlood == FloodRisk

SpecFlood == InitFlood /\ [][NextFlood]_vars

----------------------------------------------------------------------------
(* Forecast JSON and the tables built from it *)

\* a key that the JSON object does not hold
Absent == [kind |-> "absent", num |-> 0, den |-> 1]

\* dict.get(key, default)
Get(v, default) == IF v = Absent THEN default ELSE v

\* a datetime: the day number and the seconds since midnight
\* datetime.fromtimestamp(secs)
fromtimestamp(x) ==
    LET secs == x.num \div x.den
    IN  [date |-> secs \div 86400, time |-> secs % 86400]

\* datetime.fromisoformat(t), t the string "<day>T<hour>:00" held as <<day, hour>>
fromisoformat(t) == [date |-> t[1], time |-> t[2] * 3600]

\* dt.date()
DateOf(dt) == dt.date

\* round(speed * 3.6, 1), speed >= 0
WindKmh(speed) ==
    LET n == speed.num * 18
        d == speed.den * 5
    IN  Num((20 * n + d) \div (2 * d), 10)

\* str.capitalize() on the descriptions of the payloads
Capitalize(str) ==
    CASE str = "light rain" -> "Light rain"
      [] str = "clear sky" -> "Clear sky"
      [] OTHER -> str

\* a table, or the exception the construction raised
Table(rows) == [status |-> "ok", exc |-> "", rows |-> rows]
Raised(exc) == [status |-> "raised", exc |-> exc, rows |-> <<>>]

\* the values of a column of the rows
Column(rows, col) == {rows[i][col] : i \in 1..Len(rows)}

\* pd.DataFrame(rows): in a numeric column that holds a number, None becomes
\* NaN (float64); a column of None only stays None (object)
DataFrame(rows, numeric) ==
    Table([i \in 1..Len(rows) |->
        [col \in DOMAIN rows[i] |->
            IF col \in numeric /\ rows[i][col] = None
               /\ \E v \in Column(rows, col) : IsNum(v)
            THEN NaN
            ELSE rows[i][col]]])

(* build_forecast_df, streamlit_app.py: the "list" of 3-hour entries.  An   *)
(* entry holds dt, temp and humidity (of "main"), rain, weather (the        *)
(* description of its first element) and wind (its speed), each a value or  *)
(* Absent.                                                                  *)

\* it.get("rain", {}).get("3h", 0.0) if it.get("rain") else 0.0
app_rain_mm(rain) ==
    IF rain.present /\ (rain.has1h \/ rain.has3h)
    THEN (IF rain.has3h THEN rain.h3 ELSE F(0))
    ELSE F(0)

app_row(it) ==
    LET dt == fromtimestamp(Get(it.dt, F(0)))
        temp == Get(it.temp, None)
        hum == Get(it.humidity, None)
        rain == app_rain_mm(it.rain)
        cond == Capitalize(IF it.weather = "<absent>" THEN "" ELSE it.weather)
        wind == WindKmh(Get(it.wind, F(0)))
    IN  [Datetime |-> dt, Date |-> DateOf(dt), Temperature |-> temp,
         Humidity |-> hum, Rain |-> rain, Condition |-> cond, Wind |-> wind]

\* build_forecast_df with the rows in reverse payload order
app_build_forecast_df_reversed(forecast_json) ==
    LET items == IF forecast_json.has_list THEN forecast_json.list ELSE <<>>
        rows == [i \in 1..Len(items) |-> app_row(items[Len(items) + 1 - i])]
    IN  DataFrame(rows, {"Temperature", "Humidity", "Rain", "Wind"})

app_build_forecast_df(forecast_json) ==
    LET items == IF forecast_json.has_list THEN forecast_json.list ELSE <<>>
        rows == [i \in 1..Len(items) |-> app_row(items[i])]
    IN  DataFrame(rows, {"Temperature", "Humidity", "Rain", "Wind"})

(* build_hourly_df (utils.py) and build_forecast_df (pages/01, pages/02):   *)
(* the parallel arrays of "hourly".  An array is [present, vals].           *)

NoArray == [present |-> FALSE, vals |-> <<>>]
NoHourly == [time |-> NoArray, temperature_2m |-> NoArray, relative_humidity_2m |-> NoArray,
             precipitation |-> NoArray, wind_speed_10m |-> NoArray]

\* hourly[key][i] raises KeyError without the key, IndexError past the end
Subscript(arr, i) ==
    IF ~arr.present THEN "KeyError"
    ELSE IF i > Len(arr.vals) THEN "IndexError"
    ELSE "ok"

\* the exception of the first failing subscript among the arrays read for row i
FirstError(arrays, i) ==
    LET bad == {k \in 1..Len(arrays) : Subscript(arrays[k], i) # "ok"}
    IN  IF bad = {} THEN "ok"
        ELSE Subscript(arrays[CHOOSE k \in bad : \A j \in bad : k <= j], i)

\* the loop body of the hourly builders; wind is read by utils.py and pages/01
hourly_row(hourly, i, withWind) ==
    LET dt == fromisoformat(hourly.time.vals[i])
        base == [Datetime |-> dt, Date |-> DateOf(dt),
                 Temperature |-> hourly.temperature_2m.vals[i],
                 Humidity |-> hourly.relative_humidity_2m.vals[i],
                 Rain |-> hourly.precipitation.vals[i]]
    IN  IF withWind
        THEN [col \in DOMAIN base \cup {"Wind"} |->
                 IF col = "Wind" THEN hourly.wind_speed_10m.vals[i] ELSE base[col]]
        ELSE base

\* the builders with the arrays looked up before the loop
hourly_build_eager(js, withWind) ==
    LET hourly == IF js.has_hourly THEN js.hourly ELSE NoHourly
        times == IF hourly.time.present THEN hourly.time.vals ELSE <<>>
        arrays == <<hourly.temperature_2m, hourly.relative_humidity_2m, hourly.precipitation>>
                  \o (IF withWind THEN <<hourly.wind_speed_10m>> ELSE <<>>)
        absent == {k \in 1..Len(arrays) : ~arrays[k].present}
        failing == {i \in 1..Len(times) : FirstError(arrays, i) # "ok"}
    IN  IF absent # {} THEN Raised("KeyError")
        ELSE IF failing # {}
        THEN Raised(FirstError(arrays, CHOOSE i \in failing : \A j \in failing : i <= j))
        ELSE DataFrame([i \in 1..Len(times) |-> hourly_row(hourly, i, withWind)],
                       {"Temperature", "Humidity", "Rain", "Wind"})

hourly_build(js, withWind) ==
    LET hourly == IF js.has_hourly THEN js.hourly ELSE NoHourly
        times == IF hourly.time.present THEN hourly.time.vals ELSE <<>>
        arrays == <<hourly.temperature_2m, hourly.relative_humidity_2m, hourly.precipitation>>
                  \o (IF withWind THEN <<hourly.wind_speed_10m>> ELSE <<>>)
        failing == {i \in 1..Len(times) : FirstError(arrays, i) # "ok"}
    IN  IF failing # {}
        THEN Raised(FirstError(arrays, CHOOSE i \in failing : \A j \in failing : i <= j))
        ELSE DataFrame([i \in 1..Len(times) |-> hourly_row(hourly, i, withWind)],
                       {"Temperature", "Humidity", "Rain", "Wind"})

utils_build_hourly_df(js) == hourly_build(js, TRUE)
p01_build_forecast_df(data) == hourly_build(data, TRUE)
p02_build_forecast_df(data) == hourly_build(data, FALSE)

----------------------------------------------------------------------------
(* The table builders applied to drawn payloads *)

\* the longest "list" / "hourly.time" of a drawn payload
MaxEntries == 2

SeqsUpTo(S, n) == UNION {[1..k -> S] : k \in 0..n}

RainFields ==
    {[present |-> FALSE, has1h |-> FALSE, has3h |-> FALSE, h3 |-> F(0)],
     [present |-> TRUE, has1h |-> FALSE, has3h |-> FALSE, h3 |-> F(0)],
     [present |-> TRUE, has1h |-> TRUE, has3h |-> FALSE, h3 |-> F(0)],
     [present |-> TRUE, has1h |-> FALSE, has3h |-> TRUE, h3 |-> Num(5, 2)]}

\* humidity, weather and wind of an entry: all there, or none
ListOptional ==
    {[humidity |-> F(70), weather |-> "light rain", wind |-> Num(5, 2)],
     [humidity |-> Absent, weather |-> "<absent>", wind |-> Absent]}

ListEntries ==
    {[dt |-> d, temp |-> t, humidity |-> o.humidity, rain |-> r,
      weather |-> o.weather, wind |-> o.wind] :
        d \in {Absent, F(10800), F(97200)}, t \in {Absent, Num(142, 5)},
        r \in RainFields, o \in ListOptional}

ListPayloads ==
    {[shape |-> "list", has_list |-> FALSE, list |-> <<>>]}
    \cup {[shape |-> "list", has_list |-> TRUE, list |-> l] : l \in SeqsUpTo(ListEntries, MaxEntries)}

\* an array of n values of V, or no array
Arrays(n, V) == {NoArray} \cup {[present |-> TRUE, vals |-> v] : v \in [1..n -> V]}

HourlyTimes == {<<1, 0>>, <<1, 1>>, <<2, 0>>}

HourlyObjects ==
    UNION {
        {[time |-> t, temperature_2m |-> temp, relative_humidity_2m |-> o[1],
          precipitation |-> rain, wind_speed_10m |-> o[2]] :
            t \in (Arrays(n, HourlyTimes) \ (IF n = 0 THEN {} ELSE {NoArray})),
            temp \in Arrays(n, {None, F(20)}),
            rain \in Arrays(n, {None, F(1)}),
            o \in {<<NoArray, NoArray>>,
                   <<[present |-> TRUE, vals |-> [i \in 1..n |-> F(70)]],
                     [present |-> TRUE, vals |-> [i \in 1..n |-> F(5)]]>>}}
        : n \in 0..MaxEntries}

HourlyPayloads ==
    {[shape |-> "hourly", has_hourly |-> FALSE, hourly |-> NoHourly]}
    \cup {[shape |-> "hourly", has_hourly |-> TRUE, hourly |-> h] : h \in HourlyObjects}

InitNormalize ==
    /\ script = "none"
    /\ pc = "start"
    /\ today_rain = None
    /\ avg_temp = None
    /\ avg_hum = None
    /\ crop = NoCrop
    /\ advice = NoAdvice
    /\ avg_rain = None
    /\ flood = NoFlood
    /\ payload \in ListPayloads \cup HourlyPayloads
    /\ df = NoTable
    /\ df_daily = NoTable
    /\ InitIO

\* streamlit_app.py fetches the OpenWeatherMap "list"
NormalizeApp ==
    /\ pc = "start"
    /\ payload.shape = "list"
    /\ df' = app_build_forecast_df(payload)
    /\ script' = "app"
    /\ pc' = "normalized"
    /\ UNCHANGED <<today_rain, avg_temp, avg_hum, crop, advice, avg_rain, flood, payload, df_daily>>
    /\ UNCHANGED io

\* utils.py and the pages fetch the Open-Meteo "hourly" arrays
NormalizeUtils ==
    /\ pc = "start"
    /\ payload.shape = "hourly"
    /\ df' = utils_build_hourly_df(payload)
    /\ script' = "utils"
    /\ pc' = "normalized"
    /\ UNCHANGED <<today_rain, avg_temp, avg_hum, crop, advice, avg_rain, flood, payload, df_daily>>
    /\ UNCHANGED io

NormalizeP01 ==
    /\ pc = "start"
    /\ payload.shape = "hourly"
    /\ df' = p01_build_forecast_df(payload)
    /\ script' = "p01"
    /\ pc' = "normalized"
    /\ UNCHANGED <<today_rain, avg_temp, avg_hum, crop, advice, avg_rain, flood, payload, df_daily>>
    /\ UNCHANGED io

NormalizeP02 ==
    /\ pc = "start"
    /\ payload.shape = "hourly"
    /\ df' = p02_build_forecast_df(payload)
    /\ script' = "p02"
    /\ pc' = "normalized"
    /\ UNCHANGED <<today_rain, avg_temp, avg_hum, crop, advice, avg_rain, flood, payload, df_daily>>
    /\ UNCHANGED io

NextNormalize == NormalizeApp \/ NormalizeUtils \/ NormalizeP01 \/ NormalizeP02

SpecNormalize == InitNormalize /\ [][NextNormalize]_vars

----------------------------------------------------------------------------
(* Daily summary: df.groupby("Date").agg({...}).reset_index() *)

Abs(n) == IF n < 0 THEN -n ELSE n

RECURSIVE GCD(_, _)
GCD(a, b) == IF b = 0 THEN a ELSE GCD(b, a % b)

\* the float n/d, d > 0, in lowest terms: equal floats are equal values
Rat(n, d) ==
    LET g == GCD(Abs(n), d)
    IN  Num(n \div g, d \div g)

\* float addition
Add(a, b) == Rat(a.num * b.den + b.num * a.den, a.den * b.den)

\* the values of a column that are not missing (skipna)
NotNA(vals) == SelectSeq(vals, IsNum)

RECURSIVE Total(_)
Total(vals) == IF vals = <<>> THEN F(0) ELSE Add(Head(vals), Total(Tail(vals)))

\* "mean" dividing by the size of the group, the missing values counted
agg_mean_by_size(vals) ==
    IF NotNA(vals) = <<>> THEN NaN
    ELSE LET t == Total(NotNA(vals)) IN Rat(t.num, t.den * Len(vals))

\* "count" in the place of "sum": the number of values that are not missing
agg_count(vals) == F(Len(NotNA(vals)))

\* "sum": the sum of the values that are not missing, 0.0 when there is none
agg_sum(vals) == Total(NotNA(vals))

\* "mean": the mean of the values that are not missing, NaN when there is none
agg_mean(vals) ==
    IF NotNA(vals) = <<>> THEN NaN
    ELSE LET t == Total(NotNA(vals)) IN Rat(t.num, t.den * Len(NotNA(vals)))

\* the dates of the rows, ascending
RECURSIVE Ascending(_)
Ascending(S) ==
    IF S = {} THEN <<>>
    ELSE LET m == CHOOSE x \in S : \A y \in S : x <= y
         IN  <<m>> \o Ascending(S \ {m})

\* the dates of the rows in the order of their first row (groupby(sort=False))
RECURSIVE group_keys_unsorted(_)
group_keys_unsorted(rows) ==
    IF rows = <<>> THEN <<>>
    ELSE LET rest == group_keys_unsorted(SubSeq(rows, 1, Len(rows) - 1))
             d == rows[Len(rows)].Date
         IN  IF \E k \in 1..Len(rest) : rest[k] = d THEN rest ELSE Append(rest, d)

\* groupby("Date"): the group keys, sorted (sort=True is the default)
group_keys(rows) == Ascending({rows[i].Date : i \in 1..Len(rows)})

\* the rows of one group, in table order
group_rows(rows, d) == SelectSeq(rows, LAMBDA r : r.Date = d)

ColumnOf(rows, col) == [i \in 1..Len(rows) |-> rows[i][col]]

\* .agg({"Rain (mm)": "sum", "Temperature": "mean", "Humidity": "mean"}).reset_index()
groupby_agg(rows) ==
    LET keys == group_keys(rows)
    IN  [k \in 1..Len(keys) |->
            LET g == group_rows(rows, keys[k])
            IN  [Date |-> keys[k],
                 Rain |-> agg_sum(ColumnOf(g, "Rain")),
                 Temperature |-> agg_mean(ColumnOf(g, "Temperature")),
                 Humidity |-> agg_mean(ColumnOf(g, "Humidity"))]]

\* .sort_values("Date"): a stable sort, ascending
RECURSIVE sort_values(_)
sort_values(rows) ==
    IF rows = <<>> THEN <<>>
    ELSE LET first == CHOOSE i \in 1..Len(rows) :
                 /\ \A j \in 1..Len(rows) : rows[i].Date <= rows[j].Date
                 /\ \A j \in 1..(i - 1) : rows[j].Date # rows[i].Date
         IN  <<rows[first]>> \o
             sort_values(SubSeq(rows, 1, first - 1) \o SubSeq(rows, first + 1, Len(rows)))

app_df_daily(table) == Table(sort_values(groupby_agg(table.rows)))
p01_df_daily(table) == Table(groupby_agg(table.rows))
p02_df_daily(table) == Table(groupby_agg(table.rows))

(* The daily summary applied to drawn tables *)

\* the most rows of a drawn table
MaxRows == 3

DayVals == {1, 2, 3}

\* temperature, humidity and rain of a drawn row
SampleVals ==
    {<<F(20), F(60), F(1)>>, <<F(22), F(70), F(2)>>, <<F(24), F(80), F(3)>>,
     <<None, None, F(0)>>, <<Num(142, 5), F(90), None>>}

SampleRows ==
    {[Datetime |-> [date |-> d, time |-> 0], Date |-> d,
      Temperature |-> v[1], Humidity |-> v[2], Rain |-> v[3]] :
        d \in DayVals, v \in SampleVals}

\* the scripts go on to the daily summary with a table that is not empty
InitDaily ==
    /\ script = "none"
    /\ pc = "normalized"
    /\ today_rain = None
    /\ avg_temp = None
    /\ avg_hum = None
    /\ crop = NoCrop
    /\ advice = NoAdvice
    /\ avg_rain = None
    /\ flood = NoFlood
    /\ payload = NoPayload
    /\ \E rows \in SeqsUpTo(SampleRows, MaxRows) \ {<<>>} :
           df = DataFrame(rows, {"Temperature", "Humidity", "Rain"})
    /\ df_daily = NoTable
    /\ InitIO

DailyApp ==
    /\ pc = "normalized"
    /\ df_daily' = app_df_daily(df)
    /\ script' = "app"
    /\ pc' = "aggregated"
    /\ UNCHANGED <<today_rain, avg_temp, avg_hum, crop, advice, avg_rain, flood, payload, df>>
    /\ UNCHANGED io

DailyP01 ==
    /\ pc = "normalized"
    /\ df_daily' = p01_df_daily(df)
    /\ script' = "p01"
    /\ pc' = "aggregated"
    /\ UNCHANGED <<today_rain, avg_temp, avg_hum, crop, advice, avg_rain, flood, payload, df>>
    /\ UNCHANGED io

DailyP02 ==
    /\ pc = "normalized"
    /\ df_daily' = p02_df_daily(df)
    /\ script' = "p02"
    /\ pc' = "aggregated"
    /\ UNCHANGED <<today_rain, avg_temp, avg_hum, crop, advice, avg_rain, flood, payload, df>>
    /\ UNCHANGED io

NextDaily == DailyApp \/ DailyP01 \/ DailyP02

SpecDaily == InitDaily /\ [][NextDaily]_vars

(* The daily summary applied again to its own result *)

ReaggregateApp ==
    /\ pc = "aggregated"
    /\ script = "app"
    /\ df' = df_daily
    /\ df_daily' = app_df_daily(df_daily)
    /\ pc' = "reaggregated"
    /\ UNCHANGED <<script, today_rain, avg_temp, avg_hum, crop, advice, avg_rain, flood, payload>>
    /\ UNCHANGED io

ReaggregateP01 ==
    /\ pc = "aggregated"
    /\ script = "p01"
    /\ df' = df_daily
    /\ df_daily' = p01_df_daily(df_daily)
    /\ pc' = "reaggregated"
    /\ UNCHANGED <<script, today_rain, avg_temp, avg_hum, crop, advice, avg_rain, flood, payload>>
    /\ UNCHANGED io

ReaggregateP02 ==
    /\ pc = "aggregated"
    /\ script = "p02"
    /\ df' = df_daily
    /\ df_daily' = p02_df_daily(df_daily)
    /\ pc' = "reaggregated"
    /\ UNCHANGED <<script, today_rain, avg_temp, avg_hum, crop, advice, avg_rain, flood, payload>>
    /\ UNCHANGED io

NextReaggregate ==
    \/ DailyApp \/ DailyP01 \/ DailyP02
    \/ ReaggregateApp \/ ReaggregateP01 \/ ReaggregateP02

SpecReaggregate == InitDaily /\ [][NextReaggregate]_vars

----------------------------------------------------------------------------
(* Main flow after the daily summary: flood risk index and farmer advisory *)

\* a message displayed by the page
Msg(kind, text) == [kind |-> kind, text |-> text, lang |-> "source"]

\* translate_text: the text in the target language, or the text itself when
\* the language is English ("none") or the translator raises ("fails")
translate_text(text, t) == [text |-> text, lang |-> IF t = "ok" THEN "target" ELSE "source"]

\* a displayed message holding a translated text
MsgT(kind, tr) == [kind |-> kind, text |-> tr.text, lang |-> tr.lang]

\* the flood inputs taken from the first daily row instead of the mean
app_flood_inputs_first_row(daily) ==
    [avg_rain |-> IF daily.rows # <<>> THEN daily.rows[1].Rain ELSE F(0),
     avg_hum |-> IF daily.rows # <<>> THEN daily.rows[1].Humidity ELSE F(0)]

\* streamlit_app.py: float(df_daily[...].mean()) if not df_daily.empty else 0.0
app_flood_inputs(daily) ==
    [avg_rain |-> IF daily.rows # <<>> THEN agg_mean(ColumnOf(daily.rows, "Rain")) ELSE F(0),
     avg_hum |-> IF daily.rows # <<>> THEN agg_mean(ColumnOf(daily.rows, "Humidity")) ELSE F(0)]

\* streamlit_app.py: today_rain, avg_temp, avg_hum of the advisory
app_advice_inputs(daily) ==
    [today_rain |-> IF daily.rows # <<>> THEN daily.rows[1].Rain ELSE F(0),
     avg_temp |-> IF daily.rows # <<>> THEN agg_mean(ColumnOf(daily.rows, "Temperature")) ELSE None,
     avg_hum |-> IF daily.rows # <<>> THEN agg_mean(ColumnOf(daily.rows, "Humidity")) ELSE None]

\* pages/01: df_daily.iloc[0]["Rain (mm)"], df_daily[...].mean()
p01_advice_inputs(daily) ==
    [today_rain |-> daily.rows[1].Rain,
     avg_temp |-> agg_mean(ColumnOf(daily.rows, "Temperature")),
     avg_hum |-> agg_mean(ColumnOf(daily.rows, "Humidity"))]

\* pages/02: the same with float(...)
p02_advice_inputs(daily) ==
    [today_rain |-> daily.rows[1].Rain,
     avg_temp |-> agg_mean(ColumnOf(daily.rows, "Temperature")),
     avg_hum |-> agg_mean(ColumnOf(daily.rows, "Humidity"))]

\* the sidebar selectbox: crop if crop != "None" else None
CropChoices == {NoCrop, "Wheat", "Rice", "Maize"}

FloodApp ==
    /\ pc = "aggregated"
    /\ script = "app"
    /\ crashed = ""
    /\ LET in == app_flood_inputs(df_daily)
       IN  /\ avg_rain' = in.avg_rain
           /\ avg_hum' = in.avg_hum
           /\ flood' = flood_risk(in.avg_rain, in.avg_hum)
           /\ shown' = Append(shown, Msg("flood", flood_risk(in.avg_rain, in.avg_hum).level))
    /\ pc' = "classified"
    /\ UNCHANGED <<script, today_rain, avg_temp, crop, advice, payload, df, df_daily>>
    /\ UNCHANGED <<net, geo_res, fetch_res, crashed, files, stt>>

AdviceApp ==
    /\ pc = "classified"
    /\ script = "app"
    /\ crashed = ""
    /\ LET in == app_advice_inputs(df_daily)
       IN  /\ today_rain' = in.today_rain
           /\ avg_temp' = in.avg_temp
           /\ avg_hum' = in.avg_hum
           /\ advice' = app_compose_advice(in.today_rain, in.avg_temp, in.avg_hum)
    /\ shown' = Append(shown, MsgT("info", translate_text("advice", net.translate)))
    /\ pc' = "advised"
    /\ UNCHANGED <<script, crop, avg_rain, flood, payload, df, df_daily>>
    /\ UNCHANGED <<net, geo_res, fetch_res, crashed, files, stt>>

AdviceP01 ==
    /\ pc = "aggregated"
    /\ script = "p01"
    /\ crashed = ""
    /\ \E c \in CropChoices :
        LET in == p01_advice_inputs(df_daily)
        IN  /\ crop' = c
            /\ today_rain' = in.today_rain
            /\ avg_temp' = in.avg_temp
            /\ avg_hum' = in.avg_hum
            /\ advice' = p01_compose_advice(in.today_rain, in.avg_temp, in.avg_hum, c)
    /\ shown' = Append(shown, Msg("info", "advice"))
    /\ pc' = "advised"
    /\ UNCHANGED <<script, avg_rain, flood, payload, df, df_daily>>
    /\ UNCHANGED <<net, geo_res, fetch_res, crashed, files, stt>>

AdviceP02 ==
    /\ pc = "aggregated"
    /\ script = "p02"
    /\ crashed = ""
    /\ \E c \in CropChoices :
        LET in == p02_advice_inputs(df_daily)
        IN  /\ crop' = c
            /\ today_rain' = in.today_rain
            /\ avg_temp' = in.avg_temp
            /\ avg_hum' = in.avg_hum
            /\ advice' = p02_compose_advice(in.today_rain, in.avg_temp, in.avg_hum, c)
    /\ shown' = Append(shown, Msg("info", "advice"))
    /\ pc' = "advised"
    /\ UNCHANGED <<script, avg_rain, flood, payload, df, df_daily>>
    /\ UNCHANGED <<net, geo_res, fetch_res, crashed, files, stt>>

\* temperature, humidity and rain of a row of a forecast window
WindowVals ==
    {<<F(20), F(60), F(1)>>, <<F(38), F(90), F(25)>>, <<F(15), F(75), F(12)>>,
     <<None, None, F(0)>>}

WindowRows ==
    {[Datetime |-> [date |-> d, time |-> 0], Date |-> d,
      Temperature |-> v[1], Humidity |-> v[2], Rain |-> v[3]] :
        d \in {1, 2}, v \in WindowVals}

\* the scripts go on with a table that is not empty
InitRules ==
    /\ script = "none"
    /\ pc = "normalized"
    /\ today_rain = None
    /\ avg_temp = None
    /\ avg_hum = None
    /\ crop = NoCrop
    /\ advice = NoAdvice
    /\ avg_rain = None
    /\ flood = NoFlood
    /\ payload = NoPayload
    /\ \E rows \in SeqsUpTo(WindowRows, MaxRows) \ {<<>>} :
           df = DataFrame(rows, {"Temperature", "Humidity", "Rain"})
    /\ df_daily = NoTable
    /\ InitIO

\* from a table that is not empty to the advice
NextRules ==
    \/ DailyApp \/ DailyP01 \/ DailyP02
    \/ FloodApp
    \/ AdviceApp \/ AdviceP01 \/ AdviceP02

SpecRules == InitRules /\ [][NextRules]_vars

----------------------------------------------------------------------------
(* The main flow of the pages from the city to the advice audio *)

\* what an HTTP call does: an answer with status 200 ("ok"; "empty" is a 200
\* without a match), a requests exception ("timeout"), or an error status with
\* a JSON body or with a body that is not JSON
GeoOutcomes == {"ok", "empty", "timeout", "http_error_json", "http_error_text"}
FetchOutcomes == {"ok", "timeout", "http_error_json", "http_error_text"}
TranslateOutcomes == {"none", "ok", "fails"}

\* the tuple a helper returns: data is TRUE when it is not None, err is "" for None
Result(data, err) == [called |-> TRUE, data |-> data, err |-> err]

\* geocode_city, streamlit_app.py
app_geocode_city(o) ==
    CASE o = "timeout" -> Result(FALSE, "Network/geocode error")
      [] o \in {"http_error_json", "http_error_text"} -> Result(FALSE, "Geocoding API error")
      [] o = "empty" -> Result(FALSE, "No geocoding result")
      [] OTHER -> Result(TRUE, "")

\* geocode_city, pages/01: no status test; the JSON of an error has no "results"
p01_geocode_city(o) ==
    CASE o \in {"timeout", "http_error_text"} -> Result(FALSE, "Geocoding error")
      [] o \in {"http_error_json", "empty"} -> Result(FALSE, "City not found")
      [] OTHER -> Result(TRUE, "")

p02_geocode_city(o) ==
    CASE o \in {"timeout", "http_error_text"} -> Result(FALSE, "Geocoding error")
      [] o \in {"http_error_json", "empty"} -> Result(FALSE, "City not found")
      [] OTHER -> Result(TRUE, "")

\* fetch_forecast_by_latlon, streamlit_app.py
app_fetch_forecast_by_latlon(o) ==
    CASE o = "timeout" -> Result(FALSE, "Network/forecast error")
      [] o \in {"http_error_json", "http_error_text"} -> Result(FALSE, "Forecast API error")
      [] OTHER -> Result(TRUE, "")

\* fetch_forecast, pages/01: return r.json(), None whatever the status
p01_fetch_forecast(o) ==
    CASE o \in {"timeout", "http_error_text"} -> Result(FALSE, "Forecast fetch error")
      [] OTHER -> Result(TRUE, "")

p02_fetch_forecast(o) ==
    CASE o \in {"timeout", "http_error_text"} -> Result(FALSE, "Forecast fetch error")
      [] OTHER -> Result(TRUE, "")

\* the JSON body of an Open-Meteo error answer: no "hourly"
ErrorBody == [shape |-> "hourly", has_hourly |-> FALSE, hourly |-> NoHourly]

\* the bodies of the answers with status 200
FlowEntries ==
    {e \in ListEntries : e.dt # Absent /\ e.temp # Absent /\ e.humidity # Absent
                         /\ (e.rain.present => e.rain.has3h)}

FlowListBodies ==
    {[shape |-> "list", has_list |-> FALSE, list |-> <<>>]}
    \cup {[shape |-> "list", has_list |-> TRUE, list |-> l] : l \in SeqsUpTo(FlowEntries, MaxEntries)}

FlowHourlyBodies ==
    {b \in HourlyPayloads :
        b.has_hourly => /\ b.hourly.temperature_2m.present
                        /\ b.hourly.relative_humidity_2m.present
                        /\ b.hourly.wind_speed_10m.present}

\* df.empty
is_empty_never(table) == FALSE

is_empty(table) == table.rows = <<>>

InitFlow ==
    /\ script \in {"app", "p01", "p02"}
    /\ pc = "start"
    /\ today_rain = None
    /\ avg_temp = None
    /\ avg_hum = None
    /\ crop = NoCrop
    /\ advice = NoAdvice
    /\ avg_rain = None
    /\ flood = NoFlood
    /\ payload = NoPayload
    /\ df = NoTable
    /\ df_daily = NoTable
    /\ InitIO

\* lat, lon, err = geocode_city(city); if err: st.error(...); st.stop()
AfterGeocode(res, msg) ==
    /\ geo_res' = res
    /\ shown' = IF res.err # "" THEN Append(shown, msg) ELSE shown
    /\ pc' = IF res.err # "" THEN "stopped" ELSE "geocoded"
    /\ UNCHANGED <<script, today_rain, avg_temp, avg_hum, crop, advice, avg_rain, flood,
                   payload, df, df_daily, fetch_res, crashed, files, stt>>

FlowGeocodeApp ==
    /\ pc = "start"
    /\ script = "app"
    /\ \E o \in GeoOutcomes, t \in TranslateOutcomes :
        /\ net' = [net EXCEPT !.geo = o, !.translate = t]
        /\ AfterGeocode(app_geocode_city(o),
                        MsgT("error", translate_text(app_geocode_city(o).err, t)))

FlowGeocodeP01 ==
    /\ pc = "start"
    /\ script = "p01"
    /\ \E o \in GeoOutcomes :
        /\ net' = [net EXCEPT !.geo = o]
        /\ AfterGeocode(p01_geocode_city(o), Msg("error", p01_geocode_city(o).err))

FlowGeocodeP02 ==
    /\ pc = "start"
    /\ script = "p02"
    /\ \E o \in GeoOutcomes :
        /\ net' = [net EXCEPT !.geo = o]
        /\ AfterGeocode(p02_geocode_city(o), Msg("error", p02_geocode_city(o).err))

\* data, err = fetch_forecast(lat, lon); if err: st.error(...); st.stop()
AfterFetch(res, body, msg) ==
    /\ fetch_res' = res
    /\ payload' = IF res.data THEN body ELSE NoPayload
    /\ shown' = IF res.err # "" THEN Append(shown, msg) ELSE shown
    /\ pc' = IF res.err # "" THEN "stopped" ELSE "fetched"
    /\ UNCHANGED <<script, today_rain, avg_temp, avg_hum, crop, advice, avg_rain, flood,
                   df, df_daily, geo_res, crashed, files, stt>>

FlowFetchApp ==
    /\ pc = "geocoded"
    /\ script = "app"
    /\ \E o \in FetchOutcomes, body \in FlowListBodies :
        /\ net' = [net EXCEPT !.forecast = o]
        /\ AfterFetch(app_fetch_forecast_by_latlon(o), body,
                      MsgT("error", translate_text(app_fetch_forecast_by_latlon(o).err, net.translate)))

FlowFetchP01 ==
    /\ pc = "geocoded"
    /\ script = "p01"
    /\ \E o \in FetchOutcomes, body \in FlowHourlyBodies :
        /\ net' = [net EXCEPT !.forecast = o]
        /\ AfterFetch(p01_fetch_forecast(o), IF o = "ok" THEN body ELSE ErrorBody,
                      Msg("error", p01_fetch_forecast(o).err))

FlowFetchP02 ==
    /\ pc = "geocoded"
    /\ script = "p02"
    /\ \E o \in FetchOutcomes, body \in FlowHourlyBodies :
        /\ net' = [net EXCEPT !.forecast = o]
        /\ AfterFetch(p02_fetch_forecast(o), IF o = "ok" THEN body ELSE ErrorBody,
                      Msg("error", p02_fetch_forecast(o).err))

\* df = build_forecast_df(data); if df.empty: st.error(...); st.stop()
AfterBuild(table, msg) ==
    /\ df' = table
    /\ crashed' = IF table.status = "raised" THEN "normalize" ELSE crashed
    /\ shown' = IF table.status = "ok" /\ is_empty(table) THEN Append(shown, msg) ELSE shown
    /\ pc' = IF table.status = "raised" THEN "raised"
             ELSE IF is_empty(table) THEN "stopped"
             ELSE "normalized"
    /\ UNCHANGED <<script, today_rain, avg_temp, avg_hum, crop, advice, avg_rain, flood,
                   payload, df_daily, net, geo_res, fetch_res, files, stt>>

FlowNormalizeApp ==
    /\ pc = "fetched"
    /\ script = "app"
    /\ AfterBuild(app_build_forecast_df(payload),
                  MsgT("error", translate_text("No forecast data available.", net.translate)))

FlowNormalizeP01 ==
    /\ pc = "fetched"
    /\ script = "p01"
    /\ AfterBuild(p01_build_forecast_df(payload), Msg("error", "No forecast data."))

FlowNormalizeP02 ==
    /\ pc = "fetched"
    /\ script = "p02"
    /\ AfterBuild(p02_build_forecast_df(payload), Msg("error", "No forecast data"))

FlowDailyApp == script = "app" /\ DailyApp
FlowDailyP01 == script = "p01" /\ DailyP01
FlowDailyP02 == script = "p02" /\ DailyP02

\* the "Play advice audio" button of streamlit_app.py: try / except Exception
PlayApp ==
    /\ pc = "advised"
    /\ script = "app"
    /\ \E o \in {"ok", "fails", "unavailable"} :
        /\ net' = [net EXCEPT !.tts = o]
        /\ shown' = Append(shown,
               CASE o = "ok" -> Msg("audio", "advice")
                 [] o = "fails" -> Msg("error", "TTS error")
                 [] OTHER -> Msg("warning", "TTS (gTTS) not available."))
    /\ pc' = "played"
    /\ UNCHANGED <<script, today_rain, avg_temp, avg_hum, crop, advice, avg_rain, flood,
                   payload, df, df_daily, geo_res, fetch_res, crashed, files, stt>>

\* the "Play advice" button of pages/01: text_to_speech is called outside any try
PlayP01 ==
    /\ pc = "advised"
    /\ script = "p01"
    /\ \E o \in {"ok", "fails"} :
        /\ net' = [net EXCEPT !.tts = o]
        /\ shown' = IF o = "ok" THEN Append(shown, Msg("audio", "advice")) ELSE shown
        /\ crashed' = IF o = "ok" THEN crashed ELSE "tts"
        /\ pc' = IF o = "ok" THEN "played" ELSE "raised"
    /\ UNCHANGED <<script, today_rain, avg_temp, avg_hum, crop, advice, avg_rain, flood,
                   payload, df, df_daily, geo_res, fetch_res, files, stt>>

NextFlow ==
    \/ FlowGeocodeApp \/ FlowGeocodeP01 \/ FlowGeocodeP02
    \/ FlowFetchApp \/ FlowFetchP01 \/ FlowFetchP02
    \/ FlowNormalizeApp \/ FlowNormalizeP01 \/ FlowNormalizeP02
    \/ FlowDailyApp \/ FlowDailyP01 \/ FlowDailyP02
    \/ FloodApp
    \/ AdviceApp \/ AdviceP01 \/ AdviceP02
    \/ PlayApp \/ PlayP01

SpecFlow == InitFlow /\ [][NextFlow]_vars

----------------------------------------------------------------------------
(* geocode_city and fetch_forecast of utils.py *)

\* what requests.get does: it raises ("timeout"), or answers with an error
\* status, or with status 200 and a body that is not JSON, or with JSON that
\* has no "results", an empty "results", a result without "latitude", or a match
UtilsGeoOutcomes ==
    {"timeout", "http_400", "http_404", "http_500", "not_json",
     "no_results", "empty_results", "no_latitude", "ok"}
UtilsFetchOutcomes == {"timeout", "http_400", "http_404", "http_500", "not_json", "ok"}

\* the response r of an outcome
Response(o) ==
    [raised |-> o = "timeout",
     status_code |-> CASE o = "http_400" -> 400 [] o = "http_404" -> 404
                       [] o = "http_500" -> 500 [] OTHER -> 200,
     json |-> o # "not_json",
     results |-> CASE o = "no_results" -> "absent" [] o = "empty_results" -> "empty"
                   [] o = "no_latitude" -> "no_latitude" [] OTHER -> "one"]

\* fetch_forecast without the status test
utils_fetch_forecast_no_status(r) ==
    IF r.raised THEN Result(FALSE, "Network error")
    ELSE IF ~r.json THEN Result(FALSE, "Network error")
    ELSE Result(TRUE, "")

utils_geocode_city(r) ==
    IF r.raised THEN Result(FALSE, "Network error")
    ELSE IF r.status_code # 200 THEN Result(FALSE, "Geocoding error")
    ELSE IF ~r.json THEN Result(FALSE, "Network error")
    ELSE IF r.results \in {"absent", "empty"} THEN Result(FALSE, "City not found")
    ELSE IF r.results = "no_latitude" THEN Result(FALSE, "Network error")
    ELSE Result(TRUE, "")

utils_fetch_forecast(r) ==
    IF r.raised THEN Result(FALSE, "Network error")
    ELSE IF r.status_code # 200 THEN Result(FALSE, "Forecast error")
    ELSE IF ~r.json THEN Result(FALSE, "Network error")
    ELSE Result(TRUE, "")

InitUtilsNet ==
    /\ script = "utils"
    /\ pc = "start"
    /\ today_rain = None
    /\ avg_temp = None
    /\ avg_hum = None
    /\ crop = NoCrop
    /\ advice = NoAdvice
    /\ avg_rain = None
    /\ flood = NoFlood
    /\ payload = NoPayload
    /\ df = NoTable
    /\ df_daily = NoTable
    /\ InitIO

UtilsGeocode ==
    /\ script = "utils"
    /\ ~geo_res.called
    /\ \E o \in UtilsGeoOutcomes :
        /\ net' = [net EXCEPT !.geo = o]
        /\ geo_res' = utils_geocode_city(Response(o))
    /\ pc' = "called"
    /\ UNCHANGED <<script, today_rain, avg_temp, avg_hum, crop, advice, avg_rain, flood,
                   payload, df, df_daily, fetch_res, shown, crashed, files, stt>>

UtilsFetch ==
    /\ script = "utils"
    /\ ~fetch_res.called
    /\ \E o \in UtilsFetchOutcomes, body \in FlowHourlyBodies :
        /\ net' = [net EXCEPT !.forecast = o]
        /\ fetch_res' = utils_fetch_forecast(Response(o))
        /\ payload' = IF utils_fetch_forecast(Response(o)).data
                      THEN (IF o = "ok" THEN body ELSE ErrorBody)
                      ELSE NoPayload
    /\ pc' = "called"
    /\ UNCHANGED <<script, today_rain, avg_temp, avg_hum, crop, advice, avg_rain, flood,
                   df, df_daily, geo_res, shown, crashed, files, stt>>

NextUtilsNet == UtilsGeocode \/ UtilsFetch

SpecUtilsNet == InitUtilsNet /\ [][NextUtilsNet]_vars

----------------------------------------------------------------------------
(* transcribe_audio of utils.py (called by pages/03) and of streamlit_app.py *)

\* where a call fails, if it does: the libraries are not installed, the
\* temporary file cannot be created, the upload cannot be written to it, pydub
\* cannot load it, the export fails before or after it has created the .wav,
\* the recognizer fails
SttOutcomes ==
    {"libs_missing", "create_fails", "write_fails", "load_fails", "export_fails",
     "export_fails_partial", "recognition_fails", "ok"}

\* the suffix of the uploaded file, kept by the temporary file
UploadSuffixes == {".wav", ".mp3", ".m4a"}

\* the names tempfile can give
TmpNames == {"tmp1", "tmp2"}

\* the temporary files a call leaves behind: the saved upload and its .wav
TmpFiles(n, e, left) ==
    {[name |-> n, suffix |-> e, wav |-> w] : w \in {x \in BOOLEAN :
        (x /\ "wav" \in left) \/ (~x /\ "src" \in left)}}

\* utils.py: one try around everything, os.remove only before `return text, None`
utils_transcribe_audio(o) ==
    CASE o = "libs_missing" ->
            [res |-> Result(FALSE, "SpeechRecognition or pydub not installed"), left |-> {}]
      [] o = "create_fails" -> [res |-> Result(FALSE, "Transcription error"), left |-> {}]
      [] o \in {"write_fails", "load_fails", "export_fails"} ->
            [res |-> Result(FALSE, "Transcription error"), left |-> {"src"}]
      [] o \in {"export_fails_partial", "recognition_fails"} ->
            [res |-> Result(FALSE, "Transcription error"), left |-> {"src", "wav"}]
      [] OTHER -> [res |-> Result(TRUE, ""), left |-> {}]

\* streamlit_app.py: three try blocks, the cleanup in the finally of the last
app_transcribe_audio(o) ==
    CASE o = "libs_missing" ->
            [res |-> Result(FALSE, "SpeechRecognition not available"), left |-> {}]
      [] o = "create_fails" -> [res |-> Result(FALSE, "Failed to save upload"), left |-> {}]
      [] o = "write_fails" -> [res |-> Result(FALSE, "Failed to save upload"), left |-> {"src"}]
      [] o \in {"load_fails", "export_fails"} ->
            [res |-> Result(FALSE, "Audio conversion failed"), left |-> {"src"}]
      [] o = "export_fails_partial" ->
            [res |-> Result(FALSE, "Audio conversion failed"), left |-> {"src", "wav"}]
      [] o = "recognition_fails" -> [res |-> Result(FALSE, "Transcription error"), left |-> {}]
      [] OTHER -> [res |-> Result(TRUE, ""), left |-> {}]

InitTranscribe ==
    /\ script \in {"p03", "app"}
    /\ pc = "start"
    /\ today_rain = None
    /\ avg_temp = None
    /\ avg_hum = None
    /\ crop = NoCrop
    /\ advice = NoAdvice
    /\ avg_rain = None
    /\ flood = NoFlood
    /\ payload = NoPayload
    /\ df = NoTable
    /\ df_daily = NoTable
    /\ InitIO

\* an upload is transcribed and the text or the error is displayed
AfterTranscribe(o, n, e, r) ==
    /\ \A f \in files : f.name # n
    /\ net' = [net EXCEPT !.stt = o]
    /\ stt' = r.res
    /\ files' = files \cup TmpFiles(n, e, r.left)
    /\ shown' = IF r.res.err # "" THEN <<Msg("error", r.res.err)>>
                ELSE <<Msg("success", "Transcription")>>
    /\ pc' = "transcribed"
    /\ UNCHANGED <<script, today_rain, avg_temp, avg_hum, crop, advice, avg_rain, flood,
                   payload, df, df_daily, geo_res, fetch_res, crashed>>

TranscribeP03 ==
    /\ script = "p03"
    /\ \E o \in SttOutcomes, n \in TmpNames, e \in UploadSuffixes :
        AfterTranscribe(o, n, e, utils_transcribe_audio(o))

TranscribeApp ==
    /\ script = "app"
    /\ \E o \in SttOutcomes, n \in TmpNames, e \in UploadSuffixes :
        AfterTranscribe(o, n, e, app_transcribe_audio(o))

NextTranscribe == TranscribeP03 \/ TranscribeApp

SpecTranscribe == InitTranscribe /\ [][NextTranscribe]_vars

----------------------------------------------------------------------------
(* Properties of the advice *)

\* s holds the clause c at position i
IsAt(c, s, i) == i + Len(c) - 1 <= Len(s) /\ SubSeq(s, i, i + Len(c) - 1) = c

\* the number of occurrences of the clause c in s
Occurs(c, s) == Cardinality({i \in 1..Len(s) : IsAt(c, s, i)})

HeavyOf(sc) == CASE sc = "utils" -> utils_Heavy [] sc = "app" -> app_Heavy [] OTHER -> page_Heavy
ModerateOf(sc) == CASE sc = "utils" -> utils_Moderate [] sc = "app" -> app_Moderate [] OTHER -> page_Moderate
LightOf(sc) == CASE sc = "utils" -> utils_Light [] sc = "app" -> app_Light [] OTHER -> page_Light
NoRainOf(sc) == CASE sc = "utils" -> utils_NoRain [] sc = "app" -> app_NoRain [] OTHER -> page_NoRain
HeatOf(sc) == CASE sc = "utils" -> utils_Heat [] sc = "app" -> app_Heat [] OTHER -> page_Heat
CoolOf(sc) == CASE sc = "utils" -> utils_Cool [] sc = "app" -> app_Cool [] OTHER -> page_Cool
HumidOf(sc) == CASE sc = "utils" -> utils_Humid [] sc = "app" -> app_Humid [] OTHER -> page_Humid

RainClauses(sc) == {HeavyOf(sc), ModerateOf(sc), LightOf(sc), NoRainOf(sc)}
TempClauses(sc) ==
    {HeatOf(sc), CoolOf(sc)} \cup (IF sc = "utils" THEN {utils_VeryHot, utils_VeryCold} ELSE {})
CropClauses(sc, c) ==
    CASE sc = "utils" -> {utils_Crop(c)}
      [] sc = "app" -> {}
      [] OTHER -> {page_Wheat, page_Rice, page_Maize}

\* C1: for every today_rain >= 0 the advice holds exactly one rain clause: the
\* heavy one iff rain > 30, the moderate one iff 10 < rain <= 30, the light one
\* iff 0 < rain <= 10, the no-rain one iff rain = 0 (so 10 is light and 30 is
\* moderate).
C1_RainTier ==
    pc = "advised" =>
        LET h == Occurs(HeavyOf(script), advice)
            m == Occurs(ModerateOf(script), advice)
            l == Occurs(LightOf(script), advice)
            n == Occurs(NoRainOf(script), advice)
        IN  /\ h + m + l + n = 1
            /\ (h = 1) <=> GT(today_rain, 30)
            /\ (m = 1) <=> (GT(today_rain, 10) /\ ~GT(today_rain, 30))
            /\ (l = 1) <=> (GT(today_rain, 0) /\ ~GT(today_rain, 10))
            /\ (n = 1) <=> (today_rain = F(0))
            /\ today_rain = F(10) => l = 1
            /\ today_rain = F(30) => m = 1

C1_Witness ==
    /\ pc = "advised"
    /\ script = "utils"
    /\ today_rain = F(10)
    /\ IsAt(utils_Light, advice, 1)

\* C2: for every numeric avg_temp the heat clause is in the advice iff
\* avg_temp > 35, the cool-weather clause iff avg_temp < 20, and there is no
\* temperature clause at all iff 20 <= avg_temp <= 35; never more than one.
C2_TemperatureClause ==
    (pc = "advised" /\ IsNum(avg_temp)) =>
        LET heat == Occurs(HeatOf(script), advice)
            cool == Occurs(CoolOf(script), advice)
            any == {t \in TempClauses(script) : Occurs(t, advice) > 0}
        IN  /\ (heat = 1) <=> GT(avg_temp, 35)
            /\ (cool = 1) <=> LT(avg_temp, 20)
            /\ (any = {}) <=> (~GT(avg_temp, 35) /\ ~LT(avg_temp, 20))
            /\ Cardinality(any) <= 1

\* C3: the advice is the concatenation of the clauses that fired, in the order
\* rain, temperature, humidity, crop; (35, 38, 90, Wheat) gives the heavy-rain,
\* heat, humidity and Wheat clauses in that order.
C3_ClauseOrder ==
    pc = "advised" =>
        /\ \E r \in RainClauses(script) :
           \E t \in TempClauses(script) \cup {<<>>} :
           \E h \in {HumidOf(script), <<>>} :
           \E c \in CropClauses(script, crop) \cup {<<>>} :
               advice = r \o t \o h \o c
        /\ (today_rain = F(35) /\ avg_temp = F(38) /\ avg_hum = F(90) /\ crop = "Wheat") =>
               advice = HeavyOf(script) \o HeatOf(script) \o HumidOf(script)
                        \o (IF script = "utils" THEN utils_Crop("Wheat") ELSE page_Wheat)

C3_Witness ==
    /\ pc = "advised"
    /\ script = "p01"
    /\ today_rain = F(35) /\ avg_temp = F(38) /\ avg_hum = F(90) /\ crop = "Wheat"
    /\ advice = page_Heavy \o page_Heat \o page_Humid \o page_Wheat

\* C4: the advice never starts with a space, never ends with a space and never
\* holds two adjacent spaces.
C4_SingleSpaces ==
    pc = "advised" =>
        /\ advice # <<>>
        /\ advice[1] # SP
        /\ advice[Len(advice)] # SP
        /\ \A i \in 1..(Len(advice) - 1) : ~(advice[i] = SP /\ advice[i + 1] = SP)

\* C5: the flood risk level is always one of HIGH, MEDIUM, LOW: HIGH iff
\* avg_rain > 20 and avg_hum > 80; MEDIUM iff not HIGH and avg_rain > 10 and
\* avg_hum > 70; LOW otherwise.  (25,85) is HIGH, (15,75) MEDIUM, (5,50) LOW,
\* and rain above 20 with humidity at most 70 is LOW.
C5_FloodRisk ==
    pc = "classified" =>
        LET high == GT(avg_rain, 20) /\ GT(avg_hum, 80)
            medium == ~high /\ GT(avg_rain, 10) /\ GT(avg_hum, 70)
        IN  /\ flood.level \in {"HIGH", "MEDIUM", "LOW"}
            /\ (flood.level = "HIGH") <=> high
            /\ (flood.level = "MEDIUM") <=> medium
            /\ (flood.level = "LOW") <=> (~high /\ ~medium)
            /\ (avg_rain = F(25) /\ avg_hum = F(85)) => flood.level = "HIGH"
            /\ (avg_rain = F(15) /\ avg_hum = F(75)) => flood.level = "MEDIUM"
            /\ (avg_rain = F(5) /\ avg_hum = F(50)) => flood.level = "LOW"
            /\ (GT(avg_rain, 20) /\ IsNum(avg_hum) /\ ~GT(avg_hum, 70)) => flood.level = "LOW"

C5_Witness ==
    /\ pc = "classified"
    /\ avg_rain = F(25) /\ avg_hum = F(85)
    /\ flood.level = "HIGH"

----------------------------------------------------------------------------
(* Properties of the table builders *)

\* the number of entries of a payload
NumEntries(js) ==
    IF js.shape = "list" THEN (IF js.has_list THEN Len(js.list) ELSE 0)
    ELSE IF js.has_hourly /\ js.hourly.time.present THEN Len(js.hourly.time.vals)
    ELSE 0

\* entry i has no timestamp or no temperature
LacksRequired(js, i) ==
    IF js.shape = "list" THEN js.list[i].dt = Absent \/ js.list[i].temp = Absent
    ELSE \/ ~js.hourly.temperature_2m.present
         \/ js.hourly.temperature_2m.vals[i] = None

\* entry i has no rain value
LacksRain(js, i) ==
    IF js.shape = "list" THEN ~js.list[i].rain.present \/ ~js.list[i].rain.has3h
    ELSE \/ ~js.hourly.precipitation.present
         \/ js.hourly.precipitation.vals[i] = None

\* entry i has its humidity and wind
HasOptional(js, i) ==
    IF js.shape = "list" THEN js.list[i].humidity # Absent
    ELSE js.hourly.relative_humidity_2m.present /\ js.hourly.wind_speed_10m.present

\* C6: whenever an entry of the payload has no timestamp or no temperature the
\* whole normalization raises; no table with such a row is returned.
C6_FailsOnMissingRequired ==
    pc = "normalized" =>
        /\ (\E i \in 1..NumEntries(payload) : LacksRequired(payload, i)) => df.status = "raised"
        /\ df.status = "ok" => \A i \in 1..Len(df.rows) : IsNum(df.rows[i].Temperature)

\* C7: an entry without a rain value (and with every other field) is
\* normalized without an error to a row with Rain (mm) = 0, and every row of a
\* normalized table has a defined Rain (mm).
C7_RainDefaultsToZero ==
    (/\ pc = "normalized"
     /\ \A i \in 1..NumEntries(payload) : ~LacksRequired(payload, i) /\ HasOptional(payload, i)) =>
        /\ \A i \in 1..NumEntries(payload) :
               LacksRain(payload, i) => (df.status = "ok" /\ df.rows[i].Rain = F(0))
        /\ df.status = "ok" => \A i \in 1..Len(df.rows) : IsNum(df.rows[i].Rain)

\* C8: a payload with no entries (empty or missing "list", empty or missing
\* "hourly.time") is normalized to the empty table and nothing is raised, the
\* other hourly arrays being there or not.
C8_EmptyPayload ==
    (pc = "normalized" /\ NumEntries(payload) = 0) => df = Table(<<>>)

C8_Witness ==
    /\ pc = "normalized"
    /\ script = "utils"
    /\ payload.has_hourly /\ payload.hourly.time.present /\ payload.hourly.time.vals = <<>>
    /\ ~payload.hourly.temperature_2m.present /\ ~payload.hourly.precipitation.present
    /\ df = Table(<<>>)

----------------------------------------------------------------------------
(* Properties of the daily summary *)

\* the rows of df that fall on the date d
RowsOn(d) == {i \in 1..Len(df.rows) : df.rows[i].Date = d}

\* the sum of the column col over the rows I of df that hold a value
RECURSIVE SumOver(_, _)
SumOver(I, col) ==
    IF I = {} THEN F(0)
    ELSE LET i == CHOOSE x \in I : TRUE
             rest == SumOver(I \ {i}, col)
             v == df.rows[i][col]
         IN  IF IsNum(v) THEN Rat(v.num * rest.den + rest.num * v.den, v.den * rest.den)
             ELSE rest

\* m is the arithmetic mean of the column col over the rows I of df that hold
\* a value, and is undefined (NaN) when none does
IsMeanOver(m, I, col) ==
    LET J == {i \in I : IsNum(df.rows[i][col])}
        t == SumOver(J, col)
    IN  IF J = {} THEN m = NaN
        ELSE IsNum(m) /\ m.num * t.den * Cardinality(J) = t.num * m.den

\* C9: the daily summary of a non-empty table, whatever the order of its rows,
\* has exactly one row for each date of the table and for no other date, the
\* dates strictly ascending.
C9_DatesAscending ==
    pc = "aggregated" =>
        LET days == df_daily.rows
        IN  /\ df_daily.status = "ok"
            /\ {days[k].Date : k \in 1..Len(days)} = {df.rows[i].Date : i \in 1..Len(df.rows)}
            /\ Len(days) = Cardinality({df.rows[i].Date : i \in 1..Len(df.rows)})
            /\ \A k \in 1..(Len(days) - 1) : days[k].Date < days[k + 1].Date

C9_Witness ==
    /\ pc = "aggregated"
    /\ script = "p01"
    /\ Len(df.rows) = 3
    /\ df.rows[1].Date = 3 /\ df.rows[2].Date = 1 /\ df.rows[3].Date = 3
    /\ Len(df_daily.rows) = 2
    /\ df_daily.rows[1].Date = 1 /\ df_daily.rows[2].Date = 3

\* C10: the rain of a daily row is the sum of Rain (mm) over exactly the rows
\* of its date, its temperature and humidity are the arithmetic means over the
\* same rows, and every row of the table falls in exactly one daily row;
\* temperatures 20, 22, 24 with rains 1, 2, 3 on one date give 22 and 6.
C10_SumAndMean ==
    pc = "aggregated" =>
        LET days == df_daily.rows
        IN  /\ \A k \in 1..Len(days) :
                   /\ days[k].Rain = SumOver(RowsOn(days[k].Date), "Rain")
                   /\ IsMeanOver(days[k].Temperature, RowsOn(days[k].Date), "Temperature")
                   /\ IsMeanOver(days[k].Humidity, RowsOn(days[k].Date), "Humidity")
            /\ \A i \in 1..Len(df.rows) :
                   Cardinality({k \in 1..Len(days) : days[k].Date = df.rows[i].Date}) = 1
            /\ \A k \in 1..Len(days) :
                   ({<<df.rows[i].Temperature, df.rows[i].Rain>> : i \in RowsOn(days[k].Date)}
                        = {<<F(20), F(1)>>, <<F(22), F(2)>>, <<F(24), F(3)>>}
                    /\ Cardinality(RowsOn(days[k].Date)) = 3)
                   => (days[k].Temperature = F(22) /\ days[k].Rain = F(6))

C10_Witness ==
    /\ pc = "aggregated"
    /\ script = "app"
    /\ Len(df.rows) = 3
    /\ \A i \in 1..3 : df.rows[i].Date = 2
    /\ df.rows[1].Temperature = F(20) /\ df.rows[2].Temperature = F(22) /\ df.rows[3].Temperature = F(24)
    /\ df.rows[1].Rain = F(1) /\ df.rows[2].Rain = F(2) /\ df.rows[3].Rain = F(3)
    /\ Len(df_daily.rows) = 1
    /\ df_daily.rows[1].Temperature = F(22) /\ df_daily.rows[1].Rain = F(6)

\* C12: the humidity clause is in the advice, once, iff avg_hum > 85, whatever
\* the rain and the temperature are; avg_hum = 85 appends nothing.
C12_HumidityClause ==
    pc = "advised" =>
        LET h == Occurs(HumidOf(script), advice)
        IN  /\ h <= 1
            /\ (h = 1) <=> GT(avg_hum, 85)
            /\ avg_hum = F(85) => h = 0

C12_Witness ==
    /\ pc = "advised"
    /\ script = "app"
    /\ today_rain = F(0) /\ avg_temp = F(25) /\ avg_hum = Num(171, 2)
    /\ Occurs(app_Humid, advice) = 1

\* the crop clauses of the script sc that occur in the advice for the crop c
CropClausesIn(sc, c, s) == {cl \in CropClauses(sc, c) : Occurs(cl, s) > 0}

\* C13: compose_advice appends a crop clause iff the crop is one of Wheat, Rice
\* and Maize, the clause being the fixed sentence of that crop; an absent crop
\* and a crop outside the set append no crop clause.
C13_CropClause ==
    (pc = "advised" /\ script # "app") =>
        LET n == Cardinality(CropClausesIn(script, crop, advice))
        IN  /\ crop \in {"Wheat", "Rice", "Maize"} => n = 1
            /\ crop \notin {"Wheat", "Rice", "Maize"} => n = 0

\* the datetime a is earlier than the datetime b
Before(a, b) == a.date < b.date \/ (a.date = b.date /\ a.time < b.time)

StrictlyAscending(ts) == \A i, j \in 1..Len(ts) : i < j => Before(ts[i], ts[j])

\* the timestamps of the rows of a table
TimesOf(table) == [i \in 1..Len(table.rows) |-> table.rows[i].Datetime]

\* the timestamps of the entries of a payload, in payload order
PayloadTimes(p) ==
    IF p.shape = "list"
    THEN [i \in 1..Len(p.list) |-> fromtimestamp(Get(p.list[i].dt, F(0)))]
    ELSE [i \in 1..Len(p.hourly.time.vals) |-> fromisoformat(p.hourly.time.vals[i])]

\* C14 as stated: every table returned by normalization has its rows sorted by
\* timestamp ascending, no two rows sharing a timestamp.
C14_SortedNoDuplicates ==
    (pc = "normalized" /\ df.status = "ok") => StrictlyAscending(TimesOf(df))

\* C14 amended: every table returned by normalization holds one row per entry
\* of the payload, in payload order, row i carrying the timestamp of entry i;
\* so its rows are sorted ascending without duplicate timestamps exactly when
\* the timestamps of the payload are strictly ascending.
C14_KeepsPayloadOrder ==
    (pc = "normalized" /\ df.status = "ok") =>
        /\ TimesOf(df) = PayloadTimes(payload)
        /\ StrictlyAscending(TimesOf(df)) <=> StrictlyAscending(PayloadTimes(payload))

C14_Witness ==
    /\ pc = "normalized"
    /\ script = "app"
    /\ df.status = "ok"
    /\ Len(payload.list) = 2
    /\ payload.list[1].dt = F(10800) /\ payload.list[2].dt = F(97200)
    /\ TimesOf(df) = <<[date |-> 0, time |-> 10800], [date |-> 1, time |-> 10800]>>

\* C15: the daily summary of a table that is itself a daily summary (one row
\* per date) has, for every date, the rain, temperature and humidity of the
\* row it was given: the summary of a group of one row is that row.
C15_Reaggregation ==
    pc = "reaggregated" =>
        /\ \A i, j \in 1..Len(df.rows) : df.rows[i].Date = df.rows[j].Date => i = j
        /\ df_daily.status = "ok"
        /\ Len(df_daily.rows) = Len(df.rows)
        /\ \A i \in 1..Len(df.rows) : \E k \in 1..Len(df_daily.rows) :
               /\ df_daily.rows[k].Date = df.rows[i].Date
               /\ df_daily.rows[k].Rain = df.rows[i].Rain
               /\ df_daily.rows[k].Temperature = df.rows[i].Temperature
               /\ df_daily.rows[k].Humidity = df.rows[i].Humidity

C15_Witness ==
    /\ pc = "reaggregated"
    /\ script = "app"
    /\ df.rows = <<[Date |-> 1, Rain |-> F(3), Temperature |-> F(21), Humidity |-> F(65)],
                   [Date |-> 2, Rain |-> F(0), Temperature |-> NaN, Humidity |-> NaN]>>
    /\ df_daily.rows = df.rows

----------------------------------------------------------------------------
(* Properties of the main flow after the daily summary *)

\* the dates of df all of whose rows have no value in the column col
DatesWithout(col) ==
    {d \in {df.rows[i].Date : i \in 1..Len(df.rows)} :
        \A i \in RowsOn(d) : ~IsNum(df.rows[i][col])}

\* C11: a date whose samples all lack the temperature (or the humidity) still
\* has its daily row with its rain total, the metric is undefined and not 0,
\* and no undefined value is handed to the flood risk or advice rules.
C11_UndefinedMetric ==
    /\ pc \in {"aggregated", "classified", "advised"} =>
           \A col \in {"Temperature", "Humidity"} : \A d \in DatesWithout(col) :
               \E k \in 1..Len(df_daily.rows) :
                   /\ df_daily.rows[k].Date = d
                   /\ df_daily.rows[k].Rain = SumOver(RowsOn(d), "Rain")
                   /\ df_daily.rows[k][col] = NaN
    /\ pc = "classified" => avg_hum # NaN
    /\ pc = "advised" => (avg_temp # NaN /\ avg_hum # NaN)

\* the sum of the column col over the first n daily rows that hold a value
RECURSIVE DailySum(_, _)
DailySum(col, n) ==
    IF n = 0 THEN F(0)
    ELSE LET rest == DailySum(col, n - 1)
             v == df_daily.rows[n][col]
         IN  IF IsNum(v) THEN Rat(v.num * rest.den + rest.num * v.den, v.den * rest.den)
             ELSE rest

\* m is the mean of the column col over all the daily rows that hold a value
IsDailyMean(m, col) ==
    LET n == Cardinality({k \in 1..Len(df_daily.rows) : IsNum(df_daily.rows[k][col])})
        t == DailySum(col, Len(df_daily.rows))
    IN  IF n = 0 THEN m = NaN
        ELSE IsNum(m) /\ m.num * t.den * n = t.num * m.den

\* C18: the flood risk is classified on the mean of the daily rain totals and
\* the mean of the daily humidity means over all the rows of the daily table,
\* and the rain handed to the advice is the rain total of the earliest date.
C18_RuleInputs ==
    (script = "app" /\ pc \in {"classified", "advised"}) =>
        /\ IsDailyMean(avg_rain, "Rain")
        /\ IsDailyMean(avg_hum, "Humidity")
        /\ flood = flood_risk(avg_rain, avg_hum)
        /\ pc = "advised" =>
               \E k \in 1..Len(df_daily.rows) :
                   /\ \A j \in 1..Len(df_daily.rows) : df_daily.rows[k].Date <= df_daily.rows[j].Date
                   /\ today_rain = df_daily.rows[k].Rain
                   /\ advice = app_compose_advice(today_rain, avg_temp, avg_hum)

C18_Witness ==
    /\ script = "app"
    /\ pc = "advised"
    /\ Len(df.rows) = 2
    /\ df.rows[1].Date = 2 /\ df.rows[1].Rain = F(25) /\ df.rows[1].Humidity = F(90)
    /\ df.rows[2].Date = 1 /\ df.rows[2].Rain = F(1) /\ df.rows[2].Humidity = F(60)
    /\ avg_rain = F(13) /\ avg_hum = F(75)
    /\ flood.level = "MEDIUM"
    /\ today_rain = F(1)

----------------------------------------------------------------------------
(* Properties of the main flow from the city to the advice audio *)

\* the page has displayed a message of the kind k with the text t
Shown(k, t) == \E i \in 1..Len(shown) : shown[i].kind = k /\ shown[i].text = t

ShownKind(k) == \E i \in 1..Len(shown) : shown[i].kind = k

\* C16: in every page a failure of geocoding, of the forecast fetch, of the
\* translation or of text-to-speech is caught and displayed as an error
\* message, none escapes as an exception, and an HTTP error answer of the
\* forecast service is never taken for a forecast.
C16_FailuresReported ==
    /\ crashed \notin {"geocode", "fetch", "translate", "tts"}
    /\ (fetch_res.called /\ net.forecast \in {"http_error_json", "http_error_text"}) =>
           (fetch_res.err # "" /\ ~fetch_res.data /\ payload = NoPayload)
    /\ (geo_res.called /\ net.geo \in {"timeout", "http_error_json", "http_error_text"}) =>
           (geo_res.err # "" /\ Shown("error", geo_res.err))
    /\ (fetch_res.called /\ net.forecast # "ok") =>
           (fetch_res.err # "" /\ Shown("error", fetch_res.err))
    /\ (net.translate = "fails" /\ ShownKind("info")) => ShownKind("error")
    /\ net.tts = "fails" => Shown("error", "TTS error")

NoDataTexts == {"No forecast data available.", "No forecast data.", "No forecast data"}

\* C17: the main flow geocodes, fetches, normalizes, aggregates, then rates the
\* flood risk and advises, and stops at the first step that fails: no fetch
\* after a geocoding error, no table after a fetch error, and after an empty
\* table a 'no forecast data' error and no daily summary, flood risk or advice.
C17_StopsAtFirstFailure ==
    /\ fetch_res.called => (geo_res.called /\ geo_res.err = "")
    /\ geo_res.err # "" => (~fetch_res.called /\ pc = "stopped" /\ Shown("error", geo_res.err))
    /\ df # NoTable => (fetch_res.called /\ fetch_res.err = "")
    /\ fetch_res.err # "" => (df = NoTable /\ pc = "stopped" /\ Shown("error", fetch_res.err))
    /\ df_daily # NoTable => (df.status = "ok" /\ df.rows # <<>>)
    /\ (flood # NoFlood \/ advice # NoAdvice) => df_daily # NoTable
    /\ (script = "app" /\ advice # NoAdvice) => flood # NoFlood
    /\ (df.status = "ok" /\ df.rows = <<>>) =>
           /\ pc = "stopped"
           /\ shown # <<>>
           /\ shown[Len(shown)].kind = "error"
           /\ shown[Len(shown)].text \in NoDataTexts
           /\ df_daily = NoTable /\ flood = NoFlood /\ advice = NoAdvice
           /\ ~ShownKind("flood") /\ ~ShownKind("info")

C17_Witness ==
    /\ script = "app"
    /\ pc = "stopped"
    /\ geo_res = Result(TRUE, "")
    /\ fetch_res = Result(TRUE, "")
    /\ payload.has_list /\ payload.list = <<>>
    /\ df = Table(<<>>)
    /\ shown = <<Msg("error", "No forecast data available.")>>
    /\ df_daily = NoTable /\ flood = NoFlood /\ advice = NoAdvice

----------------------------------------------------------------------------
(* Properties of geocode_city and fetch_forecast of utils.py *)

----------------------------------------------------------------------------
(* Properties of transcribe_audio *)

\* C20: when transcribe_audio has returned, on whatever path, no temporary
\* file it created is left (neither the saved upload nor the .wav), and exactly
\* one of the text and the error is not None.
C20_TempFilesRemoved ==
    pc = "transcribed" =>
        /\ files = {}
        /\ (stt.data /\ stt.err = "") \/ (~stt.data /\ stt.err # "")

====
